---- MODULE Spec2Model ----
(***************************************************************************)
(* Verification model of the voice-backend delegation workflow:            *)
(*   - the keyword gate and the task classifiers (text as character        *)
(*     sequences, lower-casing, substring and token matching as coded),    *)
(*   - the Pipecat delegation processors (delegation_count, task ids),     *)
(*   - the HTTP-dispatching backends (active_tasks, delegate_to_autogen),  *)
(*   - the Magentic-UI integration layers (active_tasks, task_results).    *)
(* Each component has its own specification over the shared variables.     *)
(***************************************************************************)
EXTENDS Integers, Sequences, FiniteSets, TLC

(***************************************************************************)
(* Bounds of the model.                                                    *)
(***************************************************************************)
\* words per utterance handed to the pure classifiers
MaxWords == 2
\* frames handled by one delegation processor instance
MaxFrames == 3
\* clock readings are 0..MaxClock
MaxClock == 2
\* turns (coroutines) that may be in flight together in one backend
MaxCalls == 2
\* task ids a caller of the integration layers may put in a request
MaxTaskIds == 2
\* websocket connections open together
MaxConnections == 1
\* messages a websocket handler receives on one connection
MaxMessages == 2
\* servers in the configuration of MCPServerManager
MaxServers == 3

(***************************************************************************)
(* Text: a Python str is a sequence of one-character strings.              *)
(***************************************************************************)
W ==
  [
    create |-> <<"c","r","e","a","t","e">>,
    generate |-> <<"g","e","n","e","r","a","t","e">>,
    make |-> <<"m","a","k","e">>,
    build |-> <<"b","u","i","l","d">>,
    design |-> <<"d","e","s","i","g","n">>,
    analyze |-> <<"a","n","a","l","y","z","e">>,
    research |-> <<"r","e","s","e","a","r","c","h">>,
    write |-> <<"w","r","i","t","e">>,
    develop |-> <<"d","e","v","e","l","o","p">>,
    automate |-> <<"a","u","t","o","m","a","t","e">>,
    study |-> <<"s","t","u","d","y">>,
    investigate |-> <<"i","n","v","e","s","t","i","g","a","t","e">>,
    draft |-> <<"d","r","a","f","t">>,
    compose |-> <<"c","o","m","p","o","s","e">>,
    plan |-> <<"p","l","a","n">>,
    architect |-> <<"a","r","c","h","i","t","e","c","t">>,
    script |-> <<"s","c","r","i","p","t">>,
    code |-> <<"c","o","d","e">>,
    examine |-> <<"e","x","a","m","i","n","e">>,
    document |-> <<"d","o","c","u","m","e","n","t">>,
    program |-> <<"p","r","o","g","r","a","m">>,
    urgent |-> <<"u","r","g","e","n","t">>,
    asap |-> <<"a","s","a","p">>,
    immediately |-> <<"i","m","m","e","d","i","a","t","e","l","y">>,
    critical |-> <<"c","r","i","t","i","c","a","l">>,
    eventually |-> <<"e","v","e","n","t","u","a","l","l","y">>,
    sometime |-> <<"s","o","m","e","t","i","m","e">>,
    when |-> <<"w","h","e","n">>,
    possible |-> <<"p","o","s","s","i","b","l","e">>,
    hello |-> <<"h","e","l","l","o">>,
    time |-> <<"t","i","m","e">>,
    recreate |-> <<"r","e","c","r","e","a","t","e">>,
    CREATE |-> <<"C","R","E","A","T","E">>,
    create_stop |-> <<"c","r","e","a","t","e",".">>,
    ASAP |-> <<"A","S","A","P">>,
    Analyze |-> <<"A","n","a","l","y","z","e">>,
    when_possible |-> <<"w","h","e","n"," ","p","o","s","s","i","b","l","e">>,
    creation |-> <<"c","r","e","a","t","i","o","n">>,
    analysis |-> <<"a","n","a","l","y","s","i","s">>,
    writing |-> <<"w","r","i","t","i","n","g">>,
    automation |-> <<"a","u","t","o","m","a","t","i","o","n">>,
    general |-> <<"g","e","n","e","r","a","l">>
  ]

\* the string literals of the replies and identifiers (the leading emoji of the
\* processors' response is left out)
S ==
  [
    task_ |->
      <<"t","a","s","k","_">>,
    underscore |->
      <<"_">>,
    delegated_to |->
      <<"T","a","s","k"," ","d","e","l","e","g","a","t","e","d"," ","t","o"," ">>,
    team_request |->
      <<" ","t","e","a","m","!"," ","Y","o","u","r"," ","r","e","q","u","e","s","t"," ","'">>,
    assigned_as |->
      <<"'"," ","h","a","s"," ","b","e","e","n"," ","a","s","s","i","g","n","e","d"," ","a","s"," ">>,
    team_will |->
      <<"."," ","T","h","e"," ","t","e","a","m"," ","w","i","l","l"," ","w","o","r","k"," ","o","n"," ","t","h","i","s"," ","a","n","d"," ","p","r","o","v","i","d","e"," ","r","e","s","u","l","t","s"," ","t","h","r","o","u","g","h"," ","t","h","e"," ","M","a","g","e","n","t","i","c","-","U","I"," ","i","n","t","e","r","f","a","c","e",".">>,
    ive_assigned_q |->
      <<"I","'","v","e"," ","a","s","s","i","g","n","e","d"," ","'">>,
    to_team_id |->
      <<"'"," ","t","o"," ","y","o","u","r"," ","A","u","t","o","G","e","n"," ","t","e","a","m","."," ","T","a","s","k"," ","I","D",":"," ">>,
    hello_you_said |->
      <<"H","e","l","l","o","!"," ","Y","o","u"," ","s","a","i","d",":"," ">>,
    how_can_i_help |->
      <<"."," ","H","o","w"," ","c","a","n"," ","I"," ","h","e","l","p"," ","y","o","u"," ","t","o","d","a","y","?">>,
    error_connecting_to_team |->
      <<"e","r","r","o","r","_","c","o","n","n","e","c","t","i","n","g","_","t","o","_","t","e","a","m">>,
    assigned_that |->
      <<"I","'","v","e"," ","a","s","s","i","g","n","e","d"," ","t","h","a","t"," ","t","o"," ","y","o","u","r"," ","A","u","t","o","G","e","n"," ","t","e","a","m","."," ","T","a","s","k"," ","I","D",":"," ">>,
    had_trouble |->
      <<"I"," ","h","a","d"," ","t","r","o","u","b","l","e"," ","c","o","n","n","e","c","t","i","n","g"," ","t","o"," ","y","o","u","r"," ","A","u","t","o","G","e","n"," ","t","e","a","m","."," ","T","h","e","y"," ","m","i","g","h","t"," ","b","e"," ","b","u","s","y",".">>,
    couldnt_reach |->
      <<"I"," ","c","o","u","l","d","n","'","t"," ","r","e","a","c","h"," ","y","o","u","r"," ","A","u","t","o","G","e","n"," ","t","e","a","m"," ","r","i","g","h","t"," ","n","o","w","."," ","P","l","e","a","s","e"," ","t","r","y"," ","a","g","a","i","n"," ","l","a","t","e","r",".">>,
    sorry |->
      <<"S","o","r","r","y",","," ","I"," ","h","a","d"," ","t","r","o","u","b","l","e"," ","p","r","o","c","e","s","s","i","n","g"," ","t","h","a","t","."," ","P","l","e","a","s","e"," ","t","r","y"," ","a","g","a","i","n",".">>,
    DELEGATE |->
      <<"D","E","L","E","G","A","T","E",":">>,
    task_q |->
      <<"T","a","s","k"," ","'">>,
    ui_assigned |->
      <<"'"," ","h","a","s"," ","b","e","e","n"," ","a","s","s","i","g","n","e","d"," ","t","o"," ","t","h","e"," ","M","a","g","e","n","t","i","c","-","U","I"," ","t","e","a","m","."," ","T","h","e"," ","t","e","a","m"," ","w","i","l","l"," ","w","o","r","k"," ","o","n"," ","t","h","i","s"," ">>,
    ui_results_at |->
      <<" ","t","a","s","k"," ","a","n","d"," ","p","r","o","v","i","d","e"," ","r","e","s","u","l","t","s"," ","t","h","r","o","u","g","h"," ","t","h","e"," ","m","a","i","n"," ","i","n","t","e","r","f","a","c","e"," ","a","t"," ">>,
    ui_queued |->
      <<"'"," ","h","a","s"," ","b","e","e","n"," ","q","u","e","u","e","d"," ","f","o","r"," ","t","h","e"," ","M","a","g","e","n","t","i","c","-","U","I"," ","t","e","a","m","."," ","P","l","e","a","s","e"," ","c","h","e","c","k"," ","t","h","e"," ","m","a","i","n"," ","i","n","t","e","r","f","a","c","e"," ","a","t"," ">>,
    ui_progress |->
      <<" ","f","o","r"," ","p","r","o","g","r","e","s","s"," ","u","p","d","a","t","e","s",".">>,
    magentic_ui_url |->
      <<"h","t","t","p",":","/","/","m","a","g","e","n","t","i","c","-","u","i",":","8","0","8","1">>,
    fast_assigned_to |->
      <<"'"," ","a","s","s","i","g","n","e","d"," ","t","o"," ">>,
    fast_via |->
      <<" ","t","e","a","m"," ","v","i","a"," ","u","l","t","r","a","-","f","a","s","t"," ","D","o","c","k","e","r"," ","n","e","t","w","o","r","k">>,
    fast_queued_for |->
      <<"'"," ","q","u","e","u","e","d"," ","f","o","r"," ">>,
    fast_team |->
      <<" ","t","e","a","m">>,
    backend_not_initialized |->
      <<"B","a","c","k","e","n","d"," ","n","o","t"," ","i","n","i","t","i","a","l","i","z","e","d">>,
    batch_error |->
      <<"B","a","t","c","h"," ","p","r","o","c","e","s","s","i","n","g"," ","e","r","r","o","r",":"," ">>
  ]

\* str(n) for an integer n >= 0
DigitChar(d) ==
  CASE d = 0 -> "0" [] d = 1 -> "1" [] d = 2 -> "2" [] d = 3 -> "3" [] d = 4 -> "4"
    [] d = 5 -> "5" [] d = 6 -> "6" [] d = 7 -> "7" [] d = 8 -> "8" [] d = 9 -> "9"

RECURSIVE str(_)
str(n) == IF n < 10 THEN << DigitChar(n) >> ELSE str(n \div 10) \o << DigitChar(n % 10) >>

\* the words an utterance is built from: keywords of every category, a keyword
\* only the gate knows (develop), keywords only a classifier knows (draft, plan,
\* code, investigate, document), upper-case spellings, a word that merely
\* contains a keyword (recreate), a keyword followed by a full stop (create.),
\* priority words and neutral words
Vocabulary ==
  { W.create, W.CREATE, W.recreate, W.create_stop, W.analyze, W.Analyze, W.write, W.design,
    W.automate, W.develop, W.draft, W.plan, W.code, W.investigate, W.document,
    W.hello, W.time, W.urgent, W.ASAP, W.eventually, W.when, W.possible }

RECURSIVE Join(_)
\* the words of ws separated by single spaces
Join(ws) ==
  IF Len(ws) = 0 THEN << >>
  ELSE IF Len(ws) = 1 THEN ws[1]
  ELSE ws[1] \o <<" ">> \o Join(Tail(ws))

TextsOf(n) == { Join(ws) : ws \in UNION { [1..k -> Vocabulary] : k \in 0..n } }

\* utterances handed to the pure classifiers
Texts == TextsOf(MaxWords)
\* utterances of frames and turns: the empty and the blank utterance, every
\* one-word utterance and two longer ones
TurnTexts ==
  {<< >>, <<" ">>} \cup Vocabulary
    \cup {Join(<< W.write, W.code >>), Join(<< W.hello, W.time >>)}

\* str.lower() on one character
LowerChar(c) ==
  CASE c = "A" -> "a" [] c = "C" -> "c" [] c = "E" -> "e" [] c = "P" -> "p"
    [] c = "R" -> "r" [] c = "S" -> "s" [] c = "T" -> "t"
    [] OTHER -> c

\* str.lower()
lower(s) == [i \in 1..Len(s) |-> LowerChar(s[i])]

\* Python's `k in s` for strings: k occurs in s as a contiguous substring
In(k, s) ==
  \E i \in 1..(Len(s) - Len(k) + 1) : SubSeq(s, i, i + Len(k) - 1) = k

\* any(word in s for word in kws), kws a list of keywords
AnyIn(kws, s) == \E j \in 1..Len(kws) : In(kws[j], s)

RECURSIVE SplitFrom(_, _, _)
\* str.split(): the maximal runs of non-space characters of s, as a set (the
\* caller builds a set from the list); cur is the run being read from position i
SplitFrom(s, i, cur) ==
  IF i > Len(s) THEN (IF cur = << >> THEN {} ELSE {cur})
  ELSE IF s[i] = " "
       THEN (IF cur = << >> THEN {} ELSE {cur}) \cup SplitFrom(s, i + 1, << >>)
       ELSE SplitFrom(s, i + 1, Append(cur, s[i]))

split(s) == SplitFrom(s, 1, << >>)

\* str.strip(): leading and trailing blanks removed
RECURSIVE lstrip(_)
lstrip(s) == IF s # << >> /\ s[1] = " " THEN lstrip(Tail(s)) ELSE s

RECURSIVE rstrip(_)
rstrip(s) == IF s # << >> /\ s[Len(s)] = " " THEN rstrip(SubSeq(s, 1, Len(s) - 1)) ELSE s

strip(s) == rstrip(lstrip(s))

\* str.startswith(prefix)
startswith(s, prefix) == Len(s) >= Len(prefix) /\ SubSeq(s, 1, Len(prefix)) = prefix

RECURSIVE remove_all(_, _)
\* str.replace(old, ""): every occurrence of old removed, left to right
remove_all(s, old) ==
  IF s = << >> THEN << >>
  ELSE IF startswith(s, old) THEN remove_all(SubSeq(s, Len(old) + 1, Len(s)), old)
  ELSE << s[1] >> \o remove_all(Tail(s), old)

\* a dict with d[k] = v stored
Put(d, k, v) == [x \in (DOMAIN d) \cup {k} |-> IF x = k THEN v ELSE d[x]]

\* the empty dict
EmptyDict == [x \in {} |-> 0]

(***************************************************************************)
(* The delegation gate and the classifiers.                                *)
(***************************************************************************)
delegation_keywords ==
  << W.create, W.generate, W.make, W.build, W.design,
     W.analyze, W.research, W.write, W.develop, W.automate >>

\* needs_delegation = any(keyword in text.lower() for keyword in delegation_keywords)
needs_delegation_of(t) == AnyIn(delegation_keywords, lower(t))

\* the keyword lists of the processors' _classify_task / _classify_task_type
ProcessorKeywords ==
  [ creation   |-> << W.create, W.generate, W.make, W.build >>,
    analysis   |-> << W.analyze, W.research, W.study >>,
    writing    |-> << W.write, W.draft, W.compose >>,
    design     |-> << W.design, W.plan, W.architect >>,
    automation |-> << W.automate, W.script, W.code >> ]

\* SimpleWorkingDelegationProcessor._classify_task and
\* MagenticDelegationProcessor._classify_task_type (the same chain)
classify_task(t) ==
  LET text_lower == lower(t) IN
  IF AnyIn(ProcessorKeywords.creation, text_lower) THEN "creation"
  ELSE IF AnyIn(ProcessorKeywords.analysis, text_lower) THEN "analysis"
  ELSE IF AnyIn(ProcessorKeywords.writing, text_lower) THEN "writing"
  ELSE IF AnyIn(ProcessorKeywords.design, text_lower) THEN "design"
  ELSE IF AnyIn(ProcessorKeywords.automation, text_lower) THEN "automation"
  ELSE "general"

\* the keyword lists of magentic_integration.classify_task_type
TypeKeywords ==
  [ creation   |-> << W.create, W.generate, W.make, W.build >>,
    analysis   |-> << W.analyze, W.research, W.study, W.investigate >>,
    writing    |-> << W.write, W.draft, W.compose >>,
    design     |-> << W.design, W.plan, W.architect >>,
    automation |-> << W.automate, W.script, W.code >> ]

\* classify_task_type with the analysis branch tested before the creation branch
classify_task_type_analysis_first(description) ==
  LET description_lower == lower(description) IN
  IF AnyIn(TypeKeywords.analysis, description_lower) THEN "analysis"
  ELSE IF AnyIn(TypeKeywords.creation, description_lower) THEN "creation"
  ELSE IF AnyIn(TypeKeywords.writing, description_lower) THEN "writing"
  ELSE IF AnyIn(TypeKeywords.design, description_lower) THEN "design"
  ELSE IF AnyIn(TypeKeywords.automation, description_lower) THEN "automation"
  ELSE "general"

\* magentic_integration.classify_task_type
classify_task_type(description) ==
  LET description_lower == lower(description) IN
  IF AnyIn(TypeKeywords.creation, description_lower) THEN "creation"
  ELSE IF AnyIn(TypeKeywords.analysis, description_lower) THEN "analysis"
  ELSE IF AnyIn(TypeKeywords.writing, description_lower) THEN "writing"
  ELSE IF AnyIn(TypeKeywords.design, description_lower) THEN "design"
  ELSE IF AnyIn(TypeKeywords.automation, description_lower) THEN "automation"
  ELSE "general"

\* the keyword lists of magentic_integration.determine_task_priority
PriorityKeywords ==
  [ high |-> << W.urgent, W.asap, W.immediately, W.critical >>,
    low  |-> << W.when_possible, W.eventually, W.sometime >> ]

\* determine_task_priority with the low branch tested before the high branch
determine_task_priority_low_first(description) ==
  LET description_lower == lower(description) IN
  IF AnyIn(PriorityKeywords.low, description_lower) THEN "low"
  ELSE IF AnyIn(PriorityKeywords.high, description_lower) THEN "high"
  ELSE "normal"

\* magentic_integration.determine_task_priority
determine_task_priority(description) ==
  LET description_lower == lower(description) IN
  IF AnyIn(PriorityKeywords.high, description_lower) THEN "high"
  ELSE IF AnyIn(PriorityKeywords.low, description_lower) THEN "low"
  ELSE "normal"

\* UltraLowLatencyIntegration.task_patterns: a dict, iterated in insertion order
task_patterns ==
  << [task_type |-> "creation",
      keywords  |-> {W.create, W.generate, W.make, W.build, W.design}],
     [task_type |-> "analysis",
      keywords  |-> {W.analyze, W.research, W.study, W.investigate, W.examine}],
     [task_type |-> "writing",
      keywords  |-> {W.write, W.draft, W.compose, W.document}],
     [task_type |-> "automation",
      keywords  |-> {W.automate, W.script, W.code, W.program}],
     [task_type |-> "general", keywords |-> {}] >>

RECURSIVE FastScan(_, _)
\* the for loop of classify_task_fast from entry i on
FastScan(desc_words, i) ==
  IF i > Len(task_patterns) THEN "general"
  ELSE IF task_patterns[i].task_type # "general"
          /\ (desc_words \cap task_patterns[i].keywords) # {}
       THEN task_patterns[i].task_type
       ELSE FastScan(desc_words, i + 1)

\* UltraLowLatencyIntegration.classify_task_fast
classify_task_fast(description) == FastScan(split(lower(description)), 1)

(***************************************************************************)
(* Identifiers and replies of the delegation processors.                   *)
(***************************************************************************)
\* a task id that leaves the counter out: task_<ts>
processor_task_id_without_count(delegation_count_now, now) ==
  S.task_ \o str(now)

\* task_id = f"task_{self.delegation_count}_{int(time.time())}"
processor_task_id(delegation_count_now, now) ==
  S.task_ \o str(delegation_count_now) \o S.underscore \o str(now)

\* response_text of a delegated frame
processor_response_text(task_type, text, task_id) ==
  S.delegated_to \o W[task_type] \o S.team_request \o text \o S.assigned_as
    \o task_id \o S.team_will

(***************************************************************************)
(* State.                                                                  *)
(***************************************************************************)
VARIABLES
  \* which script of the repository is running
  program,
  \* the utterance handed to the pure classifiers
  description,
  \* what the classifiers returned for it: [done, type, fast, priority]
  classified,
  \* delegation processor: self.delegation_count
  delegation_count,
  \* delegation processor: the process_frame calls so far
  frames_handled,
  \* delegation processor: the task ids given to delegated frames, in order
  issued_ids,
  \* delegation processor: the last process_frame call,
  \* [frame, direction, needs_delegation, task_type, task_id, repeats]; repeats
  \* tells that the call before it was given the same frame
  last_frame,
  \* delegation processor: the frames given to push_frame so far, and the last
  \* one with its direction
  pushed_count,
  last_pushed,
  \* self.active_tasks: in an HTTP-dispatching backend task id ->
  \* [description, status], in an integration layer task id -> request
  active_tasks,
  \* HTTP-dispatching backend: the turns (process_text_message / process_message
  \* coroutines), each with its position and locals
  turn,
  \* integration layer: self.task_results, task id -> response
  task_results,
  \* integration layer: self.session (0 is None, n > 0 the n-th client object)
  \* and the number of client objects constructed (aiohttp.ClientSession in
  \* initialize_session, httpx.AsyncClient in _direct_communication)
  session,
  sessions_created,
  \* integration layer: the delegate_task / delegate_task_fast coroutines, each
  \* with its position, request, outcome of the outbound call and response
  call,
  \* integration layer: the external endpoint, "up" (it answers, possibly late or
  \* with an error) or "silent" (it never answers a request)
  endpoint,
  \* integration layer: the batch_delegate_tasks call, [pc, tasks, results]; its
  \* i-th delegate_task_fast coroutine is call[i]
  batch,
  \* HTTP-dispatching backend: the websocket_endpoint handlers, one per
  \* connection; the turn of connection c is turn[c]
  ws,
  \* main_pipecat_simple as a process: [pc, launch, groq_api_key, voice_backend]
  \* (how it was launched, the GROQ_API_KEY of its environment, and whether the
  \* global voice_backend is an instance rather than None)
  server,
  \* MCPServerManager: [pc, servers, at, session, health, active_connections]:
  \* the number of configured servers (named 1..servers), the server the
  \* running loop is at, per server its ClientSession ("none", "open",
  \* "closed", or "close_raised" when session.close() raised) and what its
  \* health request ended with, and the names stored in self.active_connections
  mcp

classify_vars == << description, classified >>
processor_vars ==
  << delegation_count, frames_handled, issued_ids, last_frame, pushed_count, last_pushed >>
integration_vars == << task_results, session, sessions_created, call, endpoint, batch >>
vars ==
  << program, classify_vars, processor_vars, active_tasks, turn, integration_vars, ws,
     server, mcp >>

\* what a step of one component leaves alone
outside_classify ==
  << program, processor_vars, active_tasks, turn, integration_vars, ws, server, mcp >>
outside_processor ==
  << program, classify_vars, active_tasks, turn, integration_vars, ws, server, mcp >>
outside_backend ==
  << program, classify_vars, processor_vars, integration_vars, ws, server, mcp >>
outside_integration ==
  << program, classify_vars, processor_vars, turn, endpoint, ws, server, mcp >>
outside_session == << program, classify_vars, processor_vars, integration_vars, server, mcp >>
outside_server == << program, classify_vars, processor_vars, integration_vars, ws, mcp >>
outside_mcp ==
  << program, classify_vars, processor_vars, active_tasks, turn, integration_vars, ws,
     server >>

Calls == 1..MaxCalls

\* a frame that is not a TextFrame, and a TextFrame
OtherFrame == [kind |-> "Frame", text |-> << >>]
TextFrame(text) == [kind |-> "TextFrame", text |-> text]
Frames == {OtherFrame} \cup { TextFrame(t) : t \in TurnTexts }
Directions == {"DOWNSTREAM", "UPSTREAM"}

NoFrame == [kind |-> "None", text |-> << >>]

\* the state of a component whose script is not the one running
ClassifyIdle ==
  /\ description = << >>
  /\ classified = [done |-> FALSE, type |-> "", fast |-> "", priority |-> ""]

ProcessorIdle ==
  /\ delegation_count = 0
  /\ frames_handled = 0
  /\ issued_ids = << >>
  /\ last_frame = [frame |-> NoFrame, direction |-> "", needs_delegation |-> FALSE,
                   task_type |-> "", task_id |-> << >>, repeats |-> FALSE]
  /\ pushed_count = 0
  /\ last_pushed = [frame |-> NoFrame, direction |-> ""]

NoOutcome == [kind |-> "none", status |-> 0, json |-> FALSE]
NoReply == [type |-> "", content |-> << >>, needs_delegation |-> FALSE, audio |-> FALSE]

\* a turn that has not started; llm is what the chat completion call ended with
\* ("none": not called), speech what synthesize_speech ended with ("none": not
\* called), gated whether the keyword gate was evaluated, posts the number of
\* client.post requests sent
IdleTurn ==
  [pc |-> "idle", message |-> << >>, is_voice |-> FALSE,
   llm |-> [kind |-> "none", content |-> << >>],
   needs_delegation |-> FALSE, task_description |-> << >>, outcome |-> NoOutcome,
   task_id |-> << >>, registered |-> FALSE, raised |-> FALSE,
   replies |-> 0, reply |-> NoReply,
   speech |-> "none", gated |-> FALSE, posts |-> 0]

BackendIdle == turn = [c \in Calls |-> IdleTurn]

NoRequest == [task_id |-> << >>, task_type |-> "", description |-> << >>]
NoResponse == [task_id |-> << >>, status |-> "", result |-> << >>, error |-> << >>]

\* a delegate_task / delegate_task_fast call that has not started
\* (requests: the number of outbound requests the call has sent)
IdleCall ==
  [pc |-> "idle", request |-> NoRequest, outcome |-> NoOutcome, session |-> 0,
   raised |-> FALSE, response |-> NoResponse, requests |-> 0]

IntegrationIdle ==
  /\ task_results = EmptyDict
  /\ session = 0
  /\ sessions_created = 0
  /\ call = [c \in Calls |-> IdleCall]

\* no websocket: the turn, if any, is a direct call of process_text_message /
\* process_message (the HTTP endpoints)
\* (received: the messages receive_json has returned, sent: the responses
\* send_json has delivered, delivered: the last message received was answered)
NoSocket ==
  [pc |-> "none", connected |-> FALSE, message_type |-> "", content |-> << >>,
   response_type |-> "", delivered |-> FALSE, dropped_in_flight |-> FALSE,
   received |-> 0, sent |-> 0]

\* a websocket_endpoint handler after websocket.accept(), in receive_json
OpenSocket == [NoSocket EXCEPT !.pc = "receive", !.connected = TRUE]

\* the process is not modelled: the backend instance exists
NoServer == [pc |-> "none", launch |-> "", groq_api_key |-> "", voice_backend |-> TRUE]

\* an MCPServerManager with servers configured servers, after __init__
NewManager(servers) ==
  [pc |-> "idle", servers |-> servers, at |-> 0,
   session |-> [i \in 1..MaxServers |-> "none"],
   health |-> [i \in 1..MaxServers |-> NoOutcome],
   active_connections |-> {}]

\* batch_delegate_tasks not called
IdleBatch == [pc |-> "idle", tasks |-> << >>, results |-> << >>]

\* the components other than p are in their initial state
IdleExcept(p) ==
  /\ IF p = "classify" THEN TRUE ELSE ClassifyIdle
  /\ IF p = "processor" THEN TRUE ELSE ProcessorIdle
  /\ IF p \in {"backend", "integration"} THEN TRUE ELSE active_tasks = EmptyDict
  /\ IF p = "backend" THEN TRUE ELSE BackendIdle
  /\ IF p = "integration" THEN TRUE ELSE IntegrationIdle
  /\ IF p = "integration" THEN TRUE ELSE endpoint = "up"
  /\ IF p = "batch" THEN TRUE ELSE batch = IdleBatch
  /\ IF p = "session" THEN TRUE ELSE ws = [c \in Calls |-> NoSocket]
  /\ IF p = "server" THEN TRUE ELSE server = NoServer
  /\ IF p = "mcp" THEN TRUE ELSE mcp = NewManager(0)

(***************************************************************************)
(* The pure classifiers: the utterance is drawn at the start, one step     *)
(* applies classify_task_type, classify_task_fast and                      *)
(* determine_task_priority to it.                                          *)
(***************************************************************************)
InitClassify ==
  /\ program = "classify"
  /\ description \in Texts
  /\ classified = [done |-> FALSE, type |-> "", fast |-> "", priority |-> ""]
  /\ IdleExcept("classify")

Classify ==
  /\ program = "classify"
  /\ ~classified.done
  /\ classified' = [done |-> TRUE,
                    type |-> classify_task_type(description),
                    fast |-> classify_task_fast(description),
                    priority |-> determine_task_priority(description)]
  /\ UNCHANGED << description, outside_classify >>

NextClassify == Classify

SpecClassify == InitClassify /\ [][NextClassify]_vars

(***************************************************************************)
(* C3                                                                      *)
(***************************************************************************)
\* the fixed order of the categories
CategoryOrder == << "creation", "analysis", "writing", "design", "automation" >>

\* the keyword set of category c matches text t, for classify_task_type
\* (substring containment in the lower-cased text)
TypeMatches(c, t) == \E j \in 1..Len(TypeKeywords[c]) : In(TypeKeywords[c][j], lower(t))

\* the keyword set of category c matches text t, for classify_task_fast (a
\* whitespace-separated token of the lower-cased text is a keyword of c; a
\* category without an entry in task_patterns has no keywords)
FastMatches(c, t) ==
  \E i \in 1..Len(task_patterns) :
    /\ task_patterns[i].task_type = c
    /\ \E w \in split(lower(t)) : w \in task_patterns[i].keywords

\* r is the first category of CategoryOrder that matches, or general if none does
IsFirstMatch(r, Matches(_)) ==
  \/ /\ r = "general"
     /\ \A i \in 1..Len(CategoryOrder) : ~Matches(CategoryOrder[i])
  \/ \E i \in 1..Len(CategoryOrder) :
       /\ r = CategoryOrder[i]
       /\ Matches(CategoryOrder[i])
       /\ \A k \in 1..(i - 1) : ~Matches(CategoryOrder[k])

\* C3: classify_task_type and classify_task_fast return the first category, in
\* the order creation > analysis > writing > design > automation, whose keyword
\* set matches the text, and general only when no keyword set matches.
C3_FirstMatchingCategory ==
  classified.done =>
    /\ LET M(c) == TypeMatches(c, description) IN IsFirstMatch(classified.type, M)
    /\ LET M(c) == FastMatches(c, description) IN IsFirstMatch(classified.fast, M)

\* a classified text that matches several category sets of both classifiers
C3_Witness ==
  /\ classified.done
  /\ Cardinality({i \in 1..Len(CategoryOrder) : TypeMatches(CategoryOrder[i], description)}) >= 2
  /\ Cardinality({i \in 1..Len(CategoryOrder) : FastMatches(CategoryOrder[i], description)}) >= 2

(***************************************************************************)
(* The delegation processors: MagenticDelegationProcessor and              *)
(* SimpleWorkingDelegationProcessor (the same process_frame; the clock is  *)
(* int(datetime.now().timestamp()) in one, int(time.time()) in the other). *)
(* process_frame does not suspend before its single push_frame.            *)
(***************************************************************************)
InitProcessor ==
  /\ program = "processor"
  /\ ProcessorIdle
  /\ IdleExcept("processor")

\* a process_frame without the return after the response frame: a delegated
\* frame is answered and then forwarded as well
process_frame_without_return(frame, direction, now) ==
  LET needs_delegation ==
        frame.kind = "TextFrame" /\ needs_delegation_of(frame.text)
  IN
  /\ frames_handled' = frames_handled + 1
  /\ pushed_count' = pushed_count + (IF needs_delegation THEN 2 ELSE 1)
  /\ last_pushed' = [frame |-> frame, direction |-> direction]
  /\ IF needs_delegation
     THEN LET task_type == classify_task(frame.text)
              count == delegation_count + 1
              task_id == processor_task_id(count, now)
          IN /\ delegation_count' = count
             /\ issued_ids' = Append(issued_ids, task_id)
             /\ last_frame' = [frame |-> frame, direction |-> direction,
                               needs_delegation |-> TRUE,
                               task_type |-> task_type, task_id |-> task_id,
                               repeats |-> (frame = last_frame.frame)]
     ELSE /\ UNCHANGED << delegation_count, issued_ids >>
          /\ last_frame' = [frame |-> frame, direction |-> direction,
                            needs_delegation |-> FALSE,
                            task_type |-> "", task_id |-> << >>,
                            repeats |-> (frame = last_frame.frame)]

\* a process_frame whose category depends on the counter: general for every
\* frame delegated while delegation_count is odd
process_frame_by_count(frame, direction, now) ==
  LET needs_delegation ==
        frame.kind = "TextFrame" /\ needs_delegation_of(frame.text)
  IN
  /\ frames_handled' = frames_handled + 1
  /\ pushed_count' = pushed_count + 1
  /\ IF needs_delegation
     THEN LET task_type == IF delegation_count % 2 = 1 THEN "general"
                           ELSE classify_task(frame.text)
              count == delegation_count + 1
              task_id == processor_task_id(count, now)
              response_text == processor_response_text(task_type, frame.text, task_id)
          IN /\ delegation_count' = count
             /\ issued_ids' = Append(issued_ids, task_id)
             /\ last_frame' = [frame |-> frame, direction |-> direction,
                               needs_delegation |-> TRUE,
                               task_type |-> task_type, task_id |-> task_id,
                               repeats |-> (frame = last_frame.frame)]
             /\ last_pushed' = [frame |-> TextFrame(response_text),
                                direction |-> direction]
     ELSE /\ UNCHANGED << delegation_count, issued_ids >>
          /\ last_frame' = [frame |-> frame, direction |-> direction,
                            needs_delegation |-> FALSE,
                            task_type |-> "", task_id |-> << >>,
                            repeats |-> (frame = last_frame.frame)]
          /\ last_pushed' = [frame |-> frame, direction |-> direction]

\* process_frame(frame, direction), the clock reading now
process_frame(frame, direction, now) ==
  LET needs_delegation ==
        frame.kind = "TextFrame" /\ needs_delegation_of(frame.text)
  IN
  /\ frames_handled' = frames_handled + 1
  /\ pushed_count' = pushed_count + 1
  /\ IF needs_delegation
     THEN LET task_type == classify_task(frame.text)
              count == delegation_count + 1
              task_id == processor_task_id(count, now)
              response_text == processor_response_text(task_type, frame.text, task_id)
          IN /\ delegation_count' = count
             /\ issued_ids' = Append(issued_ids, task_id)
             /\ last_frame' = [frame |-> frame, direction |-> direction,
                               needs_delegation |-> TRUE,
                               task_type |-> task_type, task_id |-> task_id,
                               repeats |-> (frame = last_frame.frame)]
             /\ last_pushed' = [frame |-> TextFrame(response_text),
                                direction |-> direction]
     ELSE /\ UNCHANGED << delegation_count, issued_ids >>
          /\ last_frame' = [frame |-> frame, direction |-> direction,
                            needs_delegation |-> FALSE,
                            task_type |-> "", task_id |-> << >>,
                            repeats |-> (frame = last_frame.frame)]
          /\ last_pushed' = [frame |-> frame, direction |-> direction]

ProcessFrame ==
  /\ program = "processor"
  /\ frames_handled < MaxFrames
  /\ \E frame \in Frames, direction \in Directions, now \in 0..MaxClock :
       process_frame(frame, direction, now)
  /\ UNCHANGED outside_processor

NextProcessor == ProcessFrame

SpecProcessor == InitProcessor /\ [][NextProcessor]_vars

(***************************************************************************)
(* C1, C2, C9: the delegation processors                                   *)
(***************************************************************************)
\* the text contains a keyword of some non-general category of the
\* processors' classifier
InSomeCategory(t) ==
  \E c \in DOMAIN ProcessorKeywords : AnyIn(ProcessorKeywords[c], lower(t))

\* C1: whenever the delegation gate of process_frame is true for a TextFrame,
\* the category computed for the same text is not general.
C1_GateImpliesCategory ==
  last_frame.needs_delegation => last_frame.task_type # "general"

\* C2: the gate is true for a text if and only if the text contains a keyword
\* of the union of the classifier's non-general keyword sets; a text with no
\* keyword of any category set is classified general and is not delegated.
C2_GateIsCategoryUnion ==
  last_frame.frame.kind = "TextFrame" =>
    /\ last_frame.needs_delegation <=> InSomeCategory(last_frame.frame.text)
    /\ ~InSomeCategory(last_frame.frame.text) =>
         /\ classify_task(last_frame.frame.text) = "general"
         /\ ~last_frame.needs_delegation

\* C9: every delegated frame gets an identifier task_<n>_<ts> that no earlier
\* delegated frame got, whatever the clock readings; n is delegation_count
\* after its increment, and delegation_count is the number of delegated frames.
C9_ProcessorIdsUnique ==
  /\ delegation_count = Len(issued_ids)
  /\ \A i \in 1..Len(issued_ids) :
       \E ts \in 0..MaxClock : issued_ids[i] = processor_task_id(i, ts)
  /\ \A i, j \in 1..Len(issued_ids) : i # j => issued_ids[i] # issued_ids[j]

\* two frames were delegated at the same clock reading
C9_Witness ==
  /\ Len(issued_ids) >= 2
  /\ \E ts \in 0..MaxClock :
       /\ issued_ids[1] = processor_task_id(1, ts)
       /\ issued_ids[2] = processor_task_id(2, ts)

(***************************************************************************)
(* The HTTP-dispatching backends.                                          *)
(*   program "simple": main_pipecat_simple.MagenticVoiceBackend            *)
(*     (process_text_message, delegate_to_autogen; the same               *)
(*     delegate_to_autogen is AutoGenDelegationProcessor's in              *)
(*     main_pipecat.py)                                                    *)
(*   program "main": main.MagenticVoiceBackend (process_message,           *)
(*     process_with_llm, delegate_to_autogen, synthesize_speech; the same  *)
(*     delegate_to_autogen is MagenticVoiceBot's, without response.json())  *)
(* A turn suspends only at `await client.post(...)`; the LLM and TTS calls  *)
(* are synchronous calls of the Groq client.                               *)
(***************************************************************************)
\* utterances of the turns of main_pipecat_simple
BackendTexts == {<< >>, <<" ">>, W.CREATE, W.develop, W.draft, W.hello}
\* utterances of the turns of main: process_message hands the text to the LLM
\* and does not look at it, so the empty utterance stands for all of them
MainTexts == {<< >>}

\* what `await client.post(...)` ends with: a response (its status, and whether
\* its body parses as JSON) or an exception
Response(status, json) == [kind |-> "response", status |-> status, json |-> json]
Timeout == [kind |-> "timeout", status |-> 0, json |-> FALSE]
ConnectError == [kind |-> "connect_error", status |-> 0, json |-> FALSE]
PostOutcomes ==
  {Response(200, TRUE), Response(200, FALSE), Response(500, TRUE), Timeout, ConnectError}

\* task_id = f"task_{datetime.now().timestamp()}": the clock reading is a float
\* (here one with an integral value)
backend_task_id(now) == S.task_ \o str(now) \o <<".", "0">>

\* main_pipecat_simple: delegate_to_autogen without its except clause
simple_delegate_to_autogen_uncaught(outcome, now) ==
  IF outcome.kind = "response"
  THEN [raised |-> FALSE, register |-> TRUE, task_id |-> backend_task_id(now),
        returned |-> backend_task_id(now)]
  ELSE [raised |-> TRUE, register |-> FALSE, task_id |-> << >>, returned |-> << >>]

\* main_pipecat_simple: delegate_to_autogen from the return of client.post on:
\* whether it raises, whether it stores a task and under which id, and what it returns
simple_delegate_to_autogen(outcome, now) ==
  IF outcome.kind = "response"
  THEN [raised |-> FALSE, register |-> TRUE, task_id |-> backend_task_id(now),
        returned |-> backend_task_id(now)]
  ELSE [raised |-> FALSE, register |-> FALSE, task_id |-> << >>,
        returned |-> S.error_connecting_to_team]

\* main_pipecat_simple: a delegate_to_autogen that sends the request again
\* after a transport exception
simple_sends_again_on_exception(outcome) == outcome.kind # "response"

\* main_pipecat_simple: whether delegate_to_autogen sends another request once
\* client.post has returned or raised: the try block has no loop and the except
\* clause returns
simple_sends_again(outcome) == FALSE

\* main: delegate_to_autogen from the return of client.post on (response.json()
\* raises inside the try when the body of a 200 answer is not JSON)
main_delegate_to_autogen(outcome, now) ==
  IF outcome.kind = "response" /\ outcome.status = 200 /\ outcome.json
  THEN [raised |-> FALSE, register |-> TRUE, task_id |-> backend_task_id(now),
        returned |-> S.assigned_that \o backend_task_id(now)]
  ELSE IF outcome.kind = "response" /\ outcome.status # 200
  THEN [raised |-> FALSE, register |-> FALSE, task_id |-> << >>,
        returned |-> S.had_trouble]
  ELSE [raised |-> FALSE, register |-> FALSE, task_id |-> << >>,
        returned |-> S.couldnt_reach]

\* what the chat completion call ends with: an exception, or a message content
LLMException == [kind |-> "exception", content |-> << >>]
LLMContent(content) == [kind |-> "content", content |-> content]
LLMResults ==
  { LLMException,
    LLMContent(W.hello),
    LLMContent(<<" ">>),
    LLMContent(S.DELEGATE \o <<" ">> \o W.create) }

\* main: process_with_llm without the strip() of the message content
process_with_llm_unstripped(llm) ==
  IF llm.kind = "exception"
  THEN [text |-> S.sorry, needs_delegation |-> FALSE]
  ELSE LET response_text == llm.content IN
       IF startswith(response_text, S.DELEGATE)
       THEN [text |-> strip(remove_all(response_text, S.DELEGATE)),
             needs_delegation |-> TRUE]
       ELSE [text |-> response_text, needs_delegation |-> FALSE]

\* main: process_with_llm, from the return of the chat completion on
process_with_llm(llm) ==
  IF llm.kind = "exception"
  THEN [text |-> S.sorry, needs_delegation |-> FALSE]
  ELSE LET response_text == strip(llm.content) IN
       IF startswith(response_text, S.DELEGATE)
       THEN [text |-> strip(remove_all(response_text, S.DELEGATE)),
             needs_delegation |-> TRUE]
       ELSE [text |-> response_text, needs_delegation |-> FALSE]

\* main: a result dict whose type is 'voice' for every voice turn
main_result_voice_always(final_response, needs_delegation, is_voice, has_audio) ==
  [type |-> IF is_voice THEN "voice" ELSE "text",
   content |-> final_response,
   needs_delegation |-> needs_delegation,
   audio |-> is_voice /\ has_audio]

\* main: the result dict of process_message; audio_data is non-empty (has_audio)
\* only when synthesize_speech returned audio
main_result(final_response, needs_delegation, is_voice, has_audio) ==
  [type |-> IF is_voice /\ has_audio THEN "voice" ELSE "text",
   content |-> final_response,
   needs_delegation |-> needs_delegation,
   audio |-> is_voice /\ has_audio]

\* what synthesize_speech ends with in a turn: it is called in voice mode only,
\* and then the speech request returns audio bytes, returns no bytes, or raises
SpeechOutcomes(is_voice) ==
  IF is_voice THEN {"audio", "empty", "exception"} ELSE {"none"}

\* main: whether the bytes synthesize_speech returns are non-empty
\* (response.content, b"" from the except clause)
synthesize_speech(speech) == speech = "audio"

InitBackend ==
  /\ program \in {"simple", "main"}
  /\ active_tasks = EmptyDict
  /\ BackendIdle
  /\ IdleExcept("backend")

\* main_pipecat_simple.process_text_message up to `await client.post`, or to its
\* return when the gate is false
SimpleStart(c) ==
  /\ program = "simple"
  /\ turn[c].pc = "idle"
  /\ \E message \in BackendTexts :
       IF needs_delegation_of(message)
       THEN turn' = [turn EXCEPT ![c] =
              [@ EXCEPT !.pc = "post", !.message = message, !.gated = TRUE,
                        !.needs_delegation = TRUE, !.task_description = message,
                        !.posts = @ + 1]]
       ELSE turn' = [turn EXCEPT ![c] =
              [@ EXCEPT !.pc = "done", !.message = message, !.gated = TRUE,
                        !.needs_delegation = FALSE, !.replies = @ + 1,
                        !.reply = [type |-> "text",
                                   content |-> S.hello_you_said \o message \o S.how_can_i_help,
                                   needs_delegation |-> FALSE, audio |-> FALSE]]]
  /\ UNCHANGED << active_tasks, outside_backend >>

\* main_pipecat_simple: delegate_to_autogen from the return of client.post on, and
\* the rest of process_text_message
SimplePost(c) ==
  /\ program = "simple"
  /\ turn[c].pc = "post"
  /\ \E outcome \in PostOutcomes, now \in 0..MaxClock :
       LET d == simple_delegate_to_autogen(outcome, now) IN
       IF simple_sends_again(outcome)
       THEN /\ turn' = [turn EXCEPT ![c] = [@ EXCEPT !.posts = @ + 1]]
            /\ UNCHANGED active_tasks
       ELSE
       /\ active_tasks' =
            IF d.register
            THEN Put(active_tasks, d.task_id,
                     [description |-> turn[c].task_description, status |-> "delegated"])
            ELSE active_tasks
       /\ turn' = [turn EXCEPT ![c] =
            IF d.raised
            THEN [@ EXCEPT !.pc = "done", !.outcome = outcome, !.raised = TRUE]
            ELSE [@ EXCEPT !.pc = "done", !.outcome = outcome,
                           !.task_id = d.task_id, !.registered = d.register,
                           !.replies = @ + 1,
                           !.reply = [type |-> "text",
                                      content |-> S.ive_assigned_q \o turn[c].message
                                                    \o S.to_team_id \o d.returned,
                                      needs_delegation |-> TRUE, audio |-> FALSE]]]
  /\ UNCHANGED outside_backend

\* main.process_message up to `await client.post` inside delegate_to_autogen, or
\* to its return when the LLM did not ask for delegation
MainStart(c) ==
  /\ program = "main"
  /\ turn[c].pc = "idle"
  /\ \E message \in MainTexts, is_voice \in BOOLEAN, llm \in LLMResults :
       LET r == process_with_llm(llm) IN
       IF r.needs_delegation
       THEN turn' = [turn EXCEPT ![c] =
              [@ EXCEPT !.pc = "post", !.message = message, !.is_voice = is_voice,
                        !.llm = llm, !.needs_delegation = TRUE,
                        !.task_description = r.text, !.posts = @ + 1]]
       ELSE \E speech \in SpeechOutcomes(is_voice) :
            turn' = [turn EXCEPT ![c] =
              [@ EXCEPT !.pc = "done", !.message = message, !.is_voice = is_voice,
                        !.llm = llm, !.needs_delegation = FALSE,
                        !.speech = speech, !.replies = @ + 1,
                        !.reply = main_result(r.text, FALSE, is_voice,
                                              synthesize_speech(speech))]]
  /\ UNCHANGED << active_tasks, outside_backend >>

\* main: delegate_to_autogen from the return of client.post on, and the rest of
\* process_message
MainPost(c) ==
  /\ program = "main"
  /\ turn[c].pc = "post"
  /\ \E outcome \in PostOutcomes, now \in 0..MaxClock,
        speech \in SpeechOutcomes(turn[c].is_voice) :
       LET d == main_delegate_to_autogen(outcome, now) IN
       /\ active_tasks' =
            IF d.register
            THEN Put(active_tasks, d.task_id,
                     [description |-> turn[c].task_description, status |-> "delegated"])
            ELSE active_tasks
       /\ turn' = [turn EXCEPT ![c] =
            IF d.raised
            THEN [@ EXCEPT !.pc = "done", !.outcome = outcome, !.raised = TRUE]
            ELSE [@ EXCEPT !.pc = "done", !.outcome = outcome,
                           !.task_id = d.task_id, !.registered = d.register,
                           !.speech = speech, !.replies = @ + 1,
                           !.reply = main_result(d.returned, TRUE, turn[c].is_voice,
                                                 synthesize_speech(speech))]]
  /\ UNCHANGED outside_backend

NextBackend ==
  \E c \in Calls : SimpleStart(c) \/ SimplePost(c) \/ MainStart(c) \/ MainPost(c)

SpecBackend == InitBackend /\ [][NextBackend]_vars

(***************************************************************************)
(* The websocket_endpoint handlers of main_pipecat_simple and main: a       *)
(* handler awaits receive_json, the turn (process_text_message /            *)
(* process_message) and send_json. The client can disconnect at any moment; *)
(* nothing in the handler reacts to that until it awaits the websocket       *)
(* again: receive_json raises WebSocketDisconnect, send_json raises.        *)
(***************************************************************************)
Connections == 1..(IF MaxConnections <= MaxCalls THEN MaxConnections ELSE MaxCalls)

\* data.get("type", "text")
MessageTypes == {"ping", "text", "voice", "status"}

\* what receive_json returns: a JSON object, or another JSON value (a list, a
\* string, a number), on which data.get raises AttributeError
Payloads == {"object", "not_object"}

\* data.get("content", "")
WsContents(p) == IF p = "main" THEN MainTexts ELSE {<< >>, W.CREATE, W.hello}

\* a handler that tests for "ping" after the branches that run a turn, and
\* gives every message that is not a voice message to the turn
route_ping_to_turn(p, message_type) ==
  IF message_type = "voice"
  THEN (IF p = "main" THEN "turn" ELSE "placeholder")
  ELSE "turn"

\* the if / elif chain of the handler: "pong" (the ping reply), "turn"
\* (process_text_message / process_message), "placeholder"
\* (main_pipecat_simple's process_voice_message) or "error"
route(p, message_type) ==
  IF p = "main"
  THEN (IF message_type \in {"voice", "text"} THEN "turn"
        ELSE IF message_type = "ping" THEN "pong"
        ELSE "error")
  ELSE (IF message_type = "ping" THEN "pong"
        ELSE IF message_type = "text" THEN "turn"
        ELSE IF message_type = "voice" THEN "placeholder"
        ELSE "error")

\* the type of the response the handler builds without running a turn
response_type_of(r) ==
  IF r = "pong" THEN "pong" ELSE IF r = "placeholder" THEN "text" ELSE "error"

InitSession ==
  /\ program \in {"simple", "main"}
  /\ active_tasks = EmptyDict
  /\ ws = [c \in Calls |-> IF c \in Connections THEN OpenSocket ELSE NoSocket]
  /\ IdleExcept("session")

\* the messages receive_json has returned on the connections 1..n
RECURSIVE messages_received(_)
messages_received(n) ==
  IF n = 0 THEN 0 ELSE ws[n].received + messages_received(n - 1)

\* receive_json returns a message: the handler up to its next await. A payload
\* that is not an object raises at data.get: the except clause closes the
\* websocket and the handler ends. The turn of the message before is over.
\* The clients send at most MaxMessages messages between them.
WsReceive(c) ==
  /\ ws[c].pc \in {"receive", "waiting"}
  /\ ws[c].connected
  /\ messages_received(MaxCalls) < MaxMessages
  /\ turn' = [turn EXCEPT ![c] = IdleTurn]
  /\ \E payload \in Payloads, message_type \in MessageTypes,
        content \in WsContents(program) :
       LET r == route(program, message_type) IN
       ws' = [ws EXCEPT ![c] =
         IF payload = "not_object"
         THEN [@ EXCEPT !.pc = "closed", !.message_type = "", !.content = << >>,
                        !.response_type = "", !.delivered = FALSE,
                        !.received = @ + 1]
         ELSE IF r = "turn"
         THEN [@ EXCEPT !.pc = "turn", !.message_type = message_type,
                        !.content = content, !.response_type = "",
                        !.delivered = FALSE, !.received = @ + 1]
         ELSE [@ EXCEPT !.pc = "send", !.message_type = message_type,
                        !.content = content, !.response_type = response_type_of(r),
                        !.delivered = FALSE, !.received = @ + 1]]
  /\ UNCHANGED << active_tasks, outside_session >>

\* the turn of the handler starts, on the content of the message
WsTurnStart(c) ==
  /\ ws[c].pc = "turn"
  /\ SimpleStart(c) \/ MainStart(c)
  /\ turn'[c].message = ws[c].content
  /\ program = "main" => turn'[c].is_voice = (ws[c].message_type = "voice")

\* the outbound call of the turn returns
WsTurnPost(c) ==
  /\ ws[c].pc = "turn"
  /\ SimplePost(c) \/ MainPost(c)

\* the client goes away
WsDisconnect(c) ==
  /\ ws[c].pc \in {"receive", "turn", "send", "waiting"}
  /\ ws[c].connected
  /\ ws' = [ws EXCEPT ![c] =
       [@ EXCEPT !.connected = FALSE,
                 !.dropped_in_flight = (ws[c].pc = "turn" /\ turn[c].pc = "post")]]
  /\ UNCHANGED << active_tasks, turn, outside_session >>

\* send_json: the response is delivered, or the call raises and the handler
\* ends because the client is gone
WsSend(c) ==
  /\ \/ ws[c].pc = "send"
     \/ ws[c].pc = "turn" /\ turn[c].pc = "done"
  /\ ws' = [ws EXCEPT ![c] =
       IF ws[c].connected
       THEN [@ EXCEPT !.pc = "waiting", !.delivered = TRUE, !.sent = @ + 1,
                      !.response_type = IF ws[c].pc = "turn" THEN turn[c].reply.type
                                        ELSE @]
       ELSE [@ EXCEPT !.pc = "closed"]]
  /\ UNCHANGED << active_tasks, turn, outside_session >>

\* receive_json raises WebSocketDisconnect: the handler ends
WsClosed(c) ==
  /\ ws[c].pc \in {"receive", "waiting"}
  /\ ~ws[c].connected
  /\ ws' = [ws EXCEPT ![c] = [@ EXCEPT !.pc = "closed"]]
  /\ UNCHANGED << active_tasks, turn, outside_session >>

NextSession ==
  \E c \in Calls :
    \/ WsReceive(c)
    \/ WsTurnStart(c)
    \/ WsTurnPost(c)
    \/ WsDisconnect(c)
    \/ WsSend(c)
    \/ WsClosed(c)

SpecSession == InitSession /\ [][NextSession]_vars

\* C13: in main_pipecat_simple, a dispatch that was in flight when its client
\* disconnected is not cancelled: when the handler has ended, the turn has run
\* to completion and has recorded its Task in active_tasks, and only the
\* delivery of the reply was skipped.
C13_DisconnectKeepsDispatch ==
  \A c \in Calls :
    (program = "simple" /\ ws[c].dropped_in_flight /\ ws[c].pc = "closed") =>
      /\ turn[c].pc = "done"
      /\ ~turn[c].raised
      /\ turn[c].registered
      /\ turn[c].task_id \in DOMAIN active_tasks
      /\ ~ws[c].delivered

\* C16: a message of type ping is answered with a pong and nothing else happens
\* for it: no turn runs (no gate, no model call, no outbound request) and no
\* step of its handler changes active_tasks, whatever its content.
C16_PingOnlyPongs ==
  [][\A c \in Calls :
       ws'[c].message_type = "ping" =>
         /\ ws'[c].response_type = "pong"
         /\ turn'[c] = IdleTurn
         /\ ws'[c] # ws[c] => active_tasks' = active_tasks]_vars

\* a ping with a content that would be delegated as a text turn was answered
C16_Witness ==
  \E c \in Calls :
    /\ ws[c].message_type = "ping"
    /\ needs_delegation_of(ws[c].content)
    /\ ws[c].delivered
    /\ ws[c].response_type = "pong"

(***************************************************************************)
(* main_pipecat_simple as a process: the __main__ block, startup_event and *)
(* the handlers that reach the backend through the global voice_backend    *)
(* (POST /api/text, the text branch of the websocket handler). Whether the *)
(* ASGI server stops after a startup_event that raised is its own choice:  *)
(* it may exit, and until it does the handlers may be called.              *)
(***************************************************************************)
\* how the process is started: python main_pipecat_simple.py (the __main__
\* block runs) or an ASGI server that imports the module
Launches == {"script", "import"}

\* os.getenv("GROQ_API_KEY"): None, "" or a key
GroqApiKeys == {"absent", "empty", "set"}

\* the handlers that call voice_backend.process_text_message
TextRoutes == {"api_text", "ws"}

\* a constructor without the test of the key
backend_init_unchecked(groq_api_key) == TRUE

\* MagenticVoiceBackend.__init__: whether it returns an instance (it raises
\* ValueError when `not self.groq_api_key`; a failed import of the Pipecat
\* services is caught)
backend_init(groq_api_key) == groq_api_key = "set"

InitServer ==
  /\ program = "simple"
  /\ server \in { [pc |-> "boot", launch |-> l, groq_api_key |-> k, voice_backend |-> FALSE] :
                    l \in Launches, k \in GroqApiKeys }
  /\ active_tasks = EmptyDict
  /\ IdleExcept("server")

\* the __main__ block up to uvicorn.run (exit(1) without the key), or the
\* import of the module by the ASGI server
Launch ==
  /\ server.pc = "boot"
  /\ server' = [server EXCEPT !.pc =
       IF server.launch = "script" /\ server.groq_api_key \in {"absent", "empty"}
       THEN "exited" ELSE "startup"]
  /\ UNCHANGED << active_tasks, turn, outside_server >>

\* startup_event: the constructor's exception is logged and raised again
StartupEvent ==
  /\ server.pc = "startup"
  /\ server' = IF backend_init(server.groq_api_key)
                THEN [server EXCEPT !.pc = "serving", !.voice_backend = TRUE]
                ELSE [server EXCEPT !.pc = "failed"]
  /\ UNCHANGED << active_tasks, turn, outside_server >>

\* the ASGI server stops after the failed startup
ServerExit ==
  /\ server.pc = "failed"
  /\ server' = [server EXCEPT !.pc = "exited"]
  /\ UNCHANGED << active_tasks, turn, outside_server >>

\* a text message reaches a handler: with a backend, process_text_message runs
\* up to its await or its return; without one, process_text answers
\* {"error": "Backend not initialized"} and the websocket handler ends on the
\* AttributeError of None.process_text_message
ProcessText(c) ==
  /\ server.pc \in {"serving", "failed"}
  /\ turn[c].pc = "idle"
  /\ IF server.voice_backend
     THEN SimpleStart(c)
     ELSE /\ \E handler \in TextRoutes, message \in BackendTexts :
               turn' = [turn EXCEPT ![c] =
                 [@ EXCEPT !.pc = "done", !.message = message,
                           !.raised = (handler = "ws"),
                           !.replies = IF handler = "ws" THEN 0 ELSE 1,
                           !.reply = IF handler = "ws" THEN NoReply
                                     ELSE [NoReply EXCEPT !.type = "error",
                                             !.content = S.backend_not_initialized]]]
          /\ UNCHANGED << active_tasks, outside_backend >>

\* the outbound call of a turn returns
ProcessTextPost(c) ==
  /\ server.pc = "serving"
  /\ SimplePost(c)

NextServer ==
  \/ Launch
  \/ StartupEvent
  \/ ServerExit
  \/ \E c \in Calls : ProcessText(c) \/ ProcessTextPost(c)

SpecServer == InitServer /\ [][NextServer]_vars

(***************************************************************************)
(* C7, C8, C10: the HTTP-dispatching backends                              *)
(***************************************************************************)
\* the outbound call failed: a non-2xx answer or a transport exception
CallFailed(outcome) ==
  \/ outcome.kind \in {"timeout", "connect_error"}
  \/ outcome.kind = "response" /\ ~(outcome.status \in 200..299)

\* C7: when the outbound call of a delegation fails, delegate_to_autogen still
\* registers a Task in active_tasks and the reply references the identifier of
\* that Task.
C7_FailedCallStillRegisters ==
  \A c \in Calls :
    (turn[c].pc = "done" /\ turn[c].needs_delegation /\ CallFailed(turn[c].outcome)) =>
      /\ turn[c].registered
      /\ turn[c].task_id \in DOMAIN active_tasks
      /\ In(turn[c].task_id, turn[c].reply.content)

\* C8 as stated: every turn, whatever the outbound call ended with, returns
\* without raising exactly one reply whose content is not empty.
C8_ReplyNeverEmpty ==
  \A c \in Calls :
    turn[c].pc = "done" =>
      /\ ~turn[c].raised
      /\ turn[c].replies = 1
      /\ turn[c].reply.content # << >>

\* C8 as amended: every turn, whatever the outbound call ended with, returns
\* without raising exactly one reply; its content is not empty, except in
\* main.process_message for a turn that is not delegated and whose LLM output is
\* empty after strip(), which is returned as it is.
C8_TurnAlwaysReplies ==
  \A c \in Calls :
    turn[c].pc = "done" =>
      /\ ~turn[c].raised
      /\ turn[c].replies = 1
      /\ \/ turn[c].reply.content # << >>
         \/ /\ program = "main"
            /\ ~turn[c].needs_delegation
            /\ turn[c].llm.kind = "content"
            /\ strip(turn[c].llm.content) = << >>

\* a delegated turn of each kind of failure has returned
C8_Witness ==
  \E c, d \in Calls :
    /\ turn[c].pc = "done" /\ turn[c].needs_delegation
    /\ turn[c].outcome.kind = "timeout"
    /\ turn[d].pc = "done" /\ turn[d].needs_delegation
    /\ turn[d].outcome.kind = "response" /\ turn[d].outcome.status = 500

\* C10: every dispatch that records a Task stores it under an identifier no
\* earlier dispatch used, for any interleaving and any clock readings; hence
\* active_tasks has as many entries as dispatches recorded a Task.
C10_BackendIdsUnique ==
  /\ \A c, d \in Calls :
       (c # d /\ turn[c].registered /\ turn[d].registered) =>
         turn[c].task_id # turn[d].task_id
  /\ Cardinality(DOMAIN active_tasks) = Cardinality({c \in Calls : turn[c].registered})

(***************************************************************************)
(* C14, C15, C17, C18: the turns of the HTTP-dispatching backends          *)
(***************************************************************************)
\* text holds a task identifier task_<n>...: "task_" followed by a digit
ReferencesTaskId(text) ==
  \E i \in 1..Len(text) :
    /\ i + Len(S.task_) <= Len(text)
    /\ SubSeq(text, i, i + Len(S.task_) - 1) = S.task_
    /\ \E n \in 0..9 : text[i + Len(S.task_)] = DigitChar(n)

\* C14: in main_pipecat_simple, for every text turn the reply's needs_delegation
\* flag is true exactly when the gate matched the utterance, the reply text
\* references a task identifier task_<n>... exactly when the turn was delegated,
\* and a turn that is not delegated sends no outbound request and registers
\* nothing.
C14_ReplyMatchesDelegation ==
  \A c \in Calls :
    (program = "simple" /\ turn[c].pc = "done") =>
      /\ turn[c].reply.needs_delegation = needs_delegation_of(turn[c].message)
      /\ ReferencesTaskId(turn[c].reply.content) = turn[c].reply.needs_delegation
      /\ ~turn[c].reply.needs_delegation =>
            (turn[c].posts = 0 /\ ~turn[c].registered)

\* an utterance that is empty or holds whitespace only
IsBlank(message) == strip(message) = << >>

\* C15: a turn whose utterance is empty or whitespace-only evaluates no gate,
\* calls no conversational model, sends no outbound request and registers
\* nothing, and its reply is one fixed text: any two such turns get the same
\* reply content.
C15_BlankUtteranceShortCircuits ==
  \A c, d \in Calls :
    (turn[c].pc = "done" /\ IsBlank(turn[c].message)) =>
      /\ ~turn[c].gated
      /\ turn[c].llm.kind = "none"
      /\ turn[c].posts = 0
      /\ ~turn[c].registered
      /\ (turn[d].pc = "done" /\ IsBlank(turn[d].message)) =>
            turn[d].reply.content = turn[c].reply.content

FinalResponse(t) ==
  IF ~t.needs_delegation THEN process_with_llm(t.llm).text
  ELSE IF t.registered THEN S.assigned_that \o t.task_id
  ELSE IF t.outcome.kind = "response" /\ t.outcome.status # 200 THEN S.had_trouble
  ELSE S.couldnt_reach

\* C18: for every voice turn of main, the result has an audio field and type
\* voice exactly when synthesize_speech returned non-empty audio; otherwise
\* (synthesis raised or returned nothing) it has type text and no audio field;
\* in both cases it carries the same reply content.
C18_SpeechFailureGivesText ==
  \A c \in Calls :
    (program = "main" /\ turn[c].pc = "done" /\ turn[c].is_voice) =>
      /\ turn[c].speech # "none"
      /\ turn[c].reply.audio = (turn[c].speech = "audio")
      /\ turn[c].reply.type = IF turn[c].speech = "audio" THEN "voice" ELSE "text"
      /\ turn[c].reply.content = FinalResponse(turn[c])

\* a voice turn whose speech synthesis raised has returned, and so has one whose
\* synthesis returned audio
C18_Witness ==
  \E c, d \in Calls :
    /\ program = "main"
    /\ turn[c].pc = "done" /\ turn[c].is_voice /\ turn[c].speech = "exception"
    /\ turn[d].pc = "done" /\ turn[d].is_voice /\ turn[d].speech = "audio"

(***************************************************************************)
(* The integration layers.                                                 *)
(*   program "ui": magentic_integration.MagenticUIIntegration              *)
(*     (delegate_task, _direct_communication)                              *)
(*   program "fast": low_latency_integration.UltraLowLatencyIntegration    *)
(*     (delegate_task_fast, _fast_health_check, initialize_session)        *)
(* delegate_task suspends at `await client.get(...)` and, after a 200, at   *)
(* `await asyncio.sleep(0.1)`; delegate_task_fast suspends at               *)
(* `self.session.head(...)` (initialize_session has no suspension point).   *)
(***************************************************************************)
\* the task ids of the requests
RequestIds == { S.task_ \o str(i) : i \in 1..MaxTaskIds }

\* the description of the i-th request: creation and analysis tasks alternate,
\* as in benchmark_integration
DescriptionOf(i) == IF i % 2 = 0 THEN W.create ELSE W.analyze

\* the requests handed to delegate_task / delegate_task_fast
Requests ==
  { [task_id |-> S.task_ \o str(i),
     task_type |-> classify_task_type(DescriptionOf(i)),
     description |-> DescriptionOf(i)] : i \in 1..MaxTaskIds }

\* what the health request (GET or HEAD) ends with
HealthOutcomes ==
  {Response(200, TRUE), Response(404, TRUE), Response(500, TRUE), Timeout, ConnectError}

\* _direct_communication returning status "failed" for a 200 answer
direct_communication_wrong_status(task_request, outcome) ==
  IF outcome.kind = "response" /\ outcome.status = 200
  THEN [task_id |-> task_request.task_id, status |-> "failed",
        result |-> << >>, error |-> << >>]
  ELSE [task_id |-> task_request.task_id, status |-> "accepted",
        result |-> S.task_q \o task_request.description \o S.ui_queued
                     \o S.magentic_ui_url \o S.ui_progress,
        error |-> << >>]

\* MagenticUIIntegration._direct_communication: the TaskResponse it returns; an
\* answer other than 200 raises inside its try and is answered by its except
\* clause, like a transport exception
direct_communication(task_request, outcome) ==
  IF outcome.kind = "response" /\ outcome.status = 200
  THEN [task_id |-> task_request.task_id, status |-> "accepted",
        result |-> S.task_q \o task_request.description \o S.ui_assigned
                     \o W[task_request.task_type] \o S.ui_results_at
                     \o S.magentic_ui_url,
        error |-> << >>]
  ELSE [task_id |-> task_request.task_id, status |-> "accepted",
        result |-> S.task_q \o task_request.description \o S.ui_queued
                     \o S.magentic_ui_url \o S.ui_progress,
        error |-> << >>]

\* UltraLowLatencyIntegration._fast_health_check: response.status < 500, False
\* on an exception
fast_health_check(outcome) == outcome.kind = "response" /\ outcome.status < 500

\* the FastTaskResponse of delegate_task_fast
fast_response(task_request, health_ok) ==
  IF health_ok
  THEN [task_id |-> task_request.task_id, status |-> "accepted",
        result |-> S.task_q \o task_request.description \o S.fast_assigned_to
                     \o W[task_request.task_type] \o S.fast_via,
        error |-> << >>]
  ELSE [task_id |-> task_request.task_id, status |-> "queued",
        result |-> S.task_q \o task_request.description \o S.fast_queued_for
                     \o W[task_request.task_type] \o S.fast_team,
        error |-> << >>]

\* the wait for an answer without a client-side timeout: it does not end
request_without_timeout(p) == NoOutcome

\* what ends the wait for an endpoint that never answers: the client-side
\* timeout (httpx.AsyncClient(timeout=5.0) in _direct_communication,
\* ClientTimeout(total=0.5) of the session in delegate_task_fast)
request_timeout(p) == Timeout

\* whether _direct_communication sends another request once client.get has
\* returned or raised: neither branch of its try nor its except clause does
direct_sends_again(outcome) == FALSE

\* what the health request of program p can end with
EndedBy(p) ==
  { o \in (IF endpoint = "silent" THEN {request_timeout(p)} ELSE HealthOutcomes) :
      o.kind # "none" }

InitIntegration ==
  /\ program \in {"ui", "fast"}
  /\ endpoint \in {"up", "silent"}
  /\ active_tasks = EmptyDict
  /\ IntegrationIdle
  /\ IdleExcept("integration")

\* delegate_task up to `await client.get(...)` in _direct_communication, which
\* constructs its own httpx.AsyncClient (closed when its `async with` is left)
DelegateTask(c) ==
  /\ program = "ui"
  /\ call[c].pc = "idle"
  /\ sessions_created' = sessions_created + 1
  /\ \E task_request \in Requests :
       /\ active_tasks' = Put(active_tasks, task_request.task_id, task_request)
       /\ call' = [call EXCEPT ![c] =
            [@ EXCEPT !.pc = "get", !.request = task_request,
                      !.session = sessions_created', !.requests = @ + 1]]
  /\ UNCHANGED << task_results, session, batch, outside_integration >>

\* the health request of _direct_communication returns: after a 200 the call
\* goes on to asyncio.sleep(0.1); otherwise _direct_communication returns its
\* fallback, delegate_task stores it and returns it
DirectCommunication(c) ==
  /\ program = "ui"
  /\ call[c].pc = "get"
  /\ \E outcome \in EndedBy("ui") :
       IF direct_sends_again(outcome)
       THEN /\ call' = [call EXCEPT ![c] = [@ EXCEPT !.requests = @ + 1]]
            /\ UNCHANGED task_results
       ELSE
       IF outcome.kind = "response" /\ outcome.status = 200
       THEN /\ call' = [call EXCEPT ![c] = [@ EXCEPT !.pc = "sleep", !.outcome = outcome]]
            /\ UNCHANGED task_results
       ELSE LET response == direct_communication(call[c].request, outcome) IN
            /\ task_results' = Put(task_results, call[c].request.task_id, response)
            /\ call' = [call EXCEPT ![c] =
                 [@ EXCEPT !.pc = "done", !.outcome = outcome, !.response = response]]
  /\ UNCHANGED << active_tasks, session, sessions_created, batch, outside_integration >>

\* asyncio.sleep(0.1) is over: _direct_communication returns the accepted
\* response, delegate_task stores it and returns it
DelegateTaskReturn(c) ==
  /\ program = "ui"
  /\ call[c].pc = "sleep"
  /\ LET response == direct_communication(call[c].request, call[c].outcome) IN
     /\ task_results' = Put(task_results, call[c].request.task_id, response)
     /\ call' = [call EXCEPT ![c] = [@ EXCEPT !.pc = "done", !.response = response]]
  /\ UNCHANGED << active_tasks, session, sessions_created, batch, outside_integration >>

\* a delegate_task_fast that does not store the request in active_tasks
delegate_task_fast_untracked(c, task_request) ==
  /\ call[c].pc = "idle"
  /\ IF session = 0
     THEN /\ session' = sessions_created + 1
          /\ sessions_created' = sessions_created + 1
     ELSE UNCHANGED << session, sessions_created >>
  /\ call' = [call EXCEPT ![c] =
       [@ EXCEPT !.pc = "head", !.request = task_request, !.session = session',
                 !.requests = @ + 1]]
  /\ UNCHANGED << active_tasks, task_results, batch, outside_integration >>

\* delegate_task_fast on task_request up to the HEAD request of
\* _fast_health_check, with initialize_session when there is no session
delegate_task_fast(c, task_request) ==
  /\ call[c].pc = "idle"
  /\ active_tasks' = Put(active_tasks, task_request.task_id, task_request)
  /\ IF session = 0
     THEN /\ session' = sessions_created + 1
          /\ sessions_created' = sessions_created + 1
     ELSE UNCHANGED << session, sessions_created >>
  /\ call' = [call EXCEPT ![c] =
       [@ EXCEPT !.pc = "head", !.request = task_request, !.session = session',
                 !.requests = @ + 1]]
  /\ UNCHANGED << task_results, batch, outside_integration >>

\* a caller starts delegate_task_fast on some request
DelegateTaskFast(c) ==
  /\ program = "fast"
  /\ \E task_request \in Requests : delegate_task_fast(c, task_request)

\* the HEAD request returns: the rest of delegate_task_fast
FastHealthCheck(c) ==
  /\ program \in {"fast", "batch"}
  /\ call[c].pc = "head"
  /\ \E outcome \in EndedBy("fast") :
       LET response == fast_response(call[c].request, fast_health_check(outcome)) IN
       /\ task_results' = Put(task_results, call[c].request.task_id, response)
       /\ call' = [call EXCEPT ![c] =
            [@ EXCEPT !.pc = "done", !.outcome = outcome, !.response = response]]
  /\ UNCHANGED << active_tasks, session, sessions_created, batch, outside_integration >>

NextIntegration ==
  \E c \in Calls :
    \/ DelegateTask(c)
    \/ DirectCommunication(c)
    \/ DelegateTaskReturn(c)
    \/ DelegateTaskFast(c)
    \/ FastHealthCheck(c)

SpecIntegration == InitIntegration /\ [][NextIntegration]_vars

\* the event loop resumes a coroutine whose awaited request has been answered
\* or has timed out, and one whose asyncio.sleep(0.1) is over; nothing obliges
\* a caller to start a call
SpecIntegrationFair ==
  /\ SpecIntegration
  /\ \A c \in Calls :
       /\ WF_vars(DirectCommunication(c))
       /\ WF_vars(DelegateTaskReturn(c))
       /\ WF_vars(FastHealthCheck(c))

(***************************************************************************)
(* batch_delegate_tasks (program "batch"): asyncio.gather runs one         *)
(* delegate_task_fast coroutine per request; each runs up to its HEAD       *)
(* request, they return in any order, and gather hands their results back  *)
(* in the order of the requests.                                           *)
(***************************************************************************)
\* the task lists given to batch_delegate_tasks: requests with pairwise distinct
\* task ids
BatchInputs ==
  UNION { { tasks \in [1..n -> Requests] :
              \A i, j \in 1..n : i # j => tasks[i].task_id # tasks[j].task_id } :
          n \in 1..MaxCalls }

\* the list batch_delegate_tasks returns, with the responses in reverse order
batch_results_reversed(tasks, calls) ==
  [i \in 1..Len(tasks) |-> calls[Len(tasks) + 1 - i].response]

\* the list batch_delegate_tasks builds from what gather returned: the i-th
\* coroutine's response, or an error response when it raised
batch_results(tasks, calls) ==
  [i \in 1..Len(tasks) |->
     IF calls[i].raised
     THEN [task_id |-> tasks[i].task_id, status |-> "failed",
           result |-> S.batch_error, error |-> << >>]
     ELSE calls[i].response]

InitBatch ==
  /\ program = "batch"
  /\ batch = IdleBatch
  /\ IdleExcept("batch")

\* batch_delegate_tasks up to `await asyncio.gather(...)`
BatchDelegateTasks ==
  /\ program = "batch"
  /\ batch.pc = "idle"
  /\ \E tasks \in BatchInputs : batch' = [batch EXCEPT !.pc = "gather", !.tasks = tasks]
  /\ UNCHANGED << active_tasks, task_results, session, sessions_created, call,
                  outside_integration >>

\* the event loop starts the c-th coroutine of the gather
BatchTaskStart(c) ==
  /\ program = "batch"
  /\ batch.pc = "gather"
  /\ c \in 1..Len(batch.tasks)
  /\ delegate_task_fast(c, batch.tasks[c])

\* every coroutine has returned: the rest of batch_delegate_tasks
BatchReturn ==
  /\ program = "batch"
  /\ batch.pc = "gather"
  /\ \A c \in 1..Len(batch.tasks) : call[c].pc = "done"
  /\ batch' = [batch EXCEPT !.pc = "done", !.results = batch_results(batch.tasks, call)]
  /\ UNCHANGED << active_tasks, task_results, session, sessions_created, call,
                  outside_integration >>

NextBatch ==
  \/ BatchDelegateTasks
  \/ \E c \in Calls : BatchTaskStart(c) \/ FastHealthCheck(c)
  \/ BatchReturn

SpecBatch == InitBatch /\ [][NextBatch]_vars

\* the task ids of a list of requests
TaskIdsOf(tasks) == { tasks[i].task_id : i \in 1..Len(tasks) }

\* C12: when batch_delegate_tasks has returned for requests with pairwise
\* distinct task ids, active_tasks and task_results each hold exactly one entry
\* per request, every entry stored under key k has task_id k, and the list
\* returned has one response per request, the i-th with the i-th request's
\* task_id, whatever the order in which the coroutines ran.
C12_BatchKeepsLedger ==
  batch.pc = "done" =>
    /\ DOMAIN active_tasks = TaskIdsOf(batch.tasks)
    /\ DOMAIN task_results = TaskIdsOf(batch.tasks)
    /\ Cardinality(DOMAIN active_tasks) = Len(batch.tasks)
    /\ Cardinality(DOMAIN task_results) = Len(batch.tasks)
    /\ \A k \in DOMAIN active_tasks : active_tasks[k].task_id = k
    /\ \A k \in DOMAIN task_results : task_results[k].task_id = k
    /\ Len(batch.results) = Len(batch.tasks)
    /\ \A i \in 1..Len(batch.tasks) :
         /\ batch.results[i].task_id = batch.tasks[i].task_id
         /\ batch.results[i] = task_results[batch.tasks[i].task_id]

\* a batch of at least two requests has returned, one of its requests answered
\* and another timed out
C12_Witness ==
  /\ batch.pc = "done"
  /\ Len(batch.tasks) >= 2
  /\ \E i, j \in 1..Len(batch.tasks) :
       /\ call[i].outcome.kind = "timeout"
       /\ call[j].outcome.kind = "response" /\ call[j].outcome.status = 200

\* the backends and the integration layers together
SpecDispatch == (InitBackend \/ InitIntegration) /\ [][NextBackend \/ NextIntegration]_vars

(***************************************************************************)
(* MCPServerManager (program "mcp"): initialize_connections walks the      *)
(* configured servers, suspending at the health request of each and at     *)
(* session.close() after an answer other than 200; close_connections walks *)
(* active_connections, suspending at each session.close().                 *)
(***************************************************************************)
\* what `await session.close()` ends with
CloseOutcomes == {"closed", "close_raised"}

\* initialize_connections from the end of the body of the loop for server i on:
\* the next server's ClientSession is constructed and its health request
\* sent, or the loop is over
next_server(m, i) ==
  IF i < m.servers
  THEN [m EXCEPT !.pc = "health", !.at = i + 1, !.session[i + 1] = "open"]
  ELSE [m EXCEPT !.pc = "initialized", !.at = 0]

\* the names in active_connections after name j, in the order of the dict
later_connections(m, j) == { k \in m.active_connections : k > j }

\* close_connections from the end of the body of the loop for name j on: the
\* next session's close() is awaited, or the dict is cleared
next_connection(m, j) ==
  IF later_connections(m, j) # {}
  THEN [m EXCEPT !.pc = "closing",
                 !.at = CHOOSE k \in later_connections(m, j) :
                          \A x \in later_connections(m, j) : k <= x]
  ELSE [m EXCEPT !.pc = "all_closed", !.at = 0, !.active_connections = {}]

InitMcp ==
  /\ program = "mcp"
  /\ mcp \in { NewManager(n) : n \in 0..MaxServers }
  /\ IdleExcept("mcp")

\* initialize_connections up to the first health request
InitializeConnections ==
  /\ mcp.pc = "idle"
  /\ mcp' = next_server(mcp, 0)
  /\ UNCHANGED outside_mcp

\* the health request of the server the loop is at ends: 200 stores the
\* session, another status goes on to session.close(), an exception is logged
HealthChecked ==
  /\ mcp.pc = "health"
  /\ \E outcome \in HealthOutcomes :
       LET i == mcp.at
           m == [mcp EXCEPT !.health[i] = outcome] IN
       mcp' = IF outcome.kind = "response" /\ outcome.status = 200
              THEN next_server([m EXCEPT !.active_connections = @ \cup {i}], i)
              ELSE IF outcome.kind = "response"
              THEN [m EXCEPT !.pc = "close_unhealthy"]
              ELSE next_server(m, i)
  /\ UNCHANGED outside_mcp

\* session.close() after a failed health check returns, or raises into the
\* except clause of the loop body
UnhealthyClosed ==
  /\ mcp.pc = "close_unhealthy"
  /\ \E closed \in CloseOutcomes :
       mcp' = next_server([mcp EXCEPT !.session[mcp.at] = closed], mcp.at)
  /\ UNCHANGED outside_mcp

\* close_connections up to the first session.close(), or to its end
CloseConnections ==
  /\ mcp.pc = "initialized"
  /\ mcp' = next_connection(mcp, 0)
  /\ UNCHANGED outside_mcp

\* session.close() of the connection the loop is at returns or raises (the
\* exception is logged)
ConnectionClosed ==
  /\ mcp.pc = "closing"
  /\ \E closed \in CloseOutcomes :
       mcp' = next_connection([mcp EXCEPT !.session[mcp.at] = closed], mcp.at)
  /\ UNCHANGED outside_mcp

NextMcp ==
  \/ InitializeConnections
  \/ HealthChecked
  \/ UnhealthyClosed
  \/ CloseConnections
  \/ ConnectionClosed

SpecMcp == InitMcp /\ [][NextMcp]_vars

(***************************************************************************)
(* C4, C5, C6: the integration layers                                      *)
(***************************************************************************)
\* call c returns in this step
Returns(c) == call[c].pc # "done" /\ call'[c].pc = "done"

\* C4: when the outbound call of delegate_task times out or fails to connect,
\* delegate_task does not raise and returns a response with status failed that
\* carries the request's task_id, and task_results holds that response under
\* that task_id as soon as the call has returned.
C4_TransportFailureGivesFailed ==
  [][\A c \in Calls :
       (program = "ui" /\ Returns(c)
          /\ call'[c].outcome.kind \in {"timeout", "connect_error"}) =>
         /\ ~call'[c].raised
         /\ call'[c].response.status = "failed"
         /\ call'[c].response.task_id = call'[c].request.task_id
         /\ call'[c].request.task_id \in DOMAIN task_results'
         /\ task_results'[call'[c].request.task_id] = call'[c].response]_vars

\* C5: a dispatch whose outbound call was answered with a non-2xx status gives
\* a response with status failed, never accepted.
C5_BadStatusGivesFailed ==
  \A c \in Calls :
    (call[c].pc = "done" /\ call[c].outcome.kind = "response"
       /\ ~(call[c].outcome.status \in 200..299)) =>
      call[c].response.status = "failed"

\* C6: when the outbound call of a dispatch (delegate_task, delegate_task_fast)
\* is answered with 200, the response returned has status accepted and a
\* non-empty task_id equal to the request's, and task_results holds it under
\* that task_id when the call returns.
C6_SuccessGivesAccepted ==
  [][\A c \in Calls :
       (Returns(c)
          /\ call'[c].outcome.kind = "response" /\ call'[c].outcome.status = 200) =>
         /\ ~call'[c].raised
         /\ call'[c].response.status = "accepted"
         /\ call'[c].response.task_id # << >>
         /\ call'[c].response.task_id = call'[c].request.task_id
         /\ call'[c].request.task_id \in DOMAIN task_results'
         /\ task_results'[call'[c].request.task_id] = call'[c].response]_vars

\* a delegate_task call answered with 200 has returned
C6_Witness ==
  \E c \in Calls :
    /\ program = "ui"
    /\ call[c].pc = "done"
    /\ call[c].outcome.kind = "response" /\ call[c].outcome.status = 200

(***************************************************************************)
(* C11, C19, C20                                                           *)
(***************************************************************************)
\* C11: once task_results holds an outcome for an identifier, no later step
\* (of any delegate_task / delegate_task_fast call, also one that carries the
\* same task_id) changes its status or removes the entry.
C11_OutcomeIsTerminal ==
  [][\A k \in DOMAIN task_results :
       /\ k \in DOMAIN task_results'
       /\ task_results'[k].status = task_results[k].status]_vars

\* C19: every started dispatch (delegate_task, delegate_task_fast) eventually
\* returns a response, also when the external endpoint never answers.
C19_DispatchReturns ==
  \A c \in Calls :
    (call[c].pc \in {"get", "sleep", "head"}) ~>
      (call[c].pc = "done" /\ call[c].response.status # "")

\* a dispatch to an endpoint that never answers has returned
C19_Witness ==
  \E c \in Calls :
    /\ endpoint = "silent"
    /\ call[c].pc = "done"
    /\ call[c].outcome.kind = "timeout"
    /\ call[c].response.status # ""

\* C20: a dispatch invocation sends at most one outbound request, also after a
\* failed or timed-out one.
C20_AtMostOneRequest ==
  \A c \in Calls :
    /\ turn[c].posts <= 1
    /\ call[c].requests <= 1
    /\ (turn[c].pc = "done" /\ turn[c].needs_delegation) => turn[c].posts = 1
    /\ call[c].pc = "done" => call[c].requests = 1

\* a delegate_to_autogen whose request timed out has returned
C20_Witness ==
  \E c \in Calls :
    /\ program = "simple" /\ turn[c].pc = "done"
    /\ turn[c].outcome.kind = "timeout" /\ turn[c].posts = 1

(***************************************************************************)
(* C21: the client objects of the integration layers                       *)
(***************************************************************************)
\* the client objects constructed and not closed: the session the instance
\* holds (close_session is not called by a dispatch), and the clients of the
\* _direct_communication calls that are inside their `async with`
OpenSessions ==
  (IF session # 0 THEN {session} ELSE {})
    \cup { call[c].session : c \in { d \in Calls : call[d].pc \in {"get", "sleep"} } }

\* C21: while no client session has been closed, at most one has been created,
\* and every dispatch that has sent its request sent it through that session.
C21_OneSharedSession ==
  Cardinality(OpenSessions) = sessions_created =>
    /\ sessions_created <= 1
    /\ \A c \in Calls : call[c].pc # "idle" => call[c].session \in OpenSessions
    /\ \A c, d \in Calls :
         (call[c].pc # "idle" /\ call[d].pc # "idle") => call[c].session = call[d].session

(***************************************************************************)
(* C22: determine_task_priority                                            *)
(***************************************************************************)
\* the text, in any letter case, contains one of the words of the set
ContainsOneOf(words, t) == \E w \in words : In(w, lower(t))

HighWords == {W.urgent, W.asap, W.immediately, W.critical}
LowWords == {W.when_possible, W.eventually, W.sometime}

\* C22: determine_task_priority returns high for every text that contains a
\* high keyword in any letter case (also next to a low keyword), low for every
\* text that contains a low keyword and no high keyword, and normal otherwise;
\* the result is fixed by which priority keywords the text contains, whatever
\* category the text is classified into.
C22_PriorityFromKeywords ==
  classified.done =>
    classified.priority =
      IF ContainsOneOf(HighWords, description) THEN "high"
      ELSE IF ContainsOneOf(LowWords, description) THEN "low"
      ELSE "normal"

\* a text that holds a high keyword in upper case next to a low keyword was
\* given its priority
C22_Witness ==
  /\ classified.done
  /\ classified.priority = "high"
  /\ ContainsOneOf(LowWords, description)
  /\ ~(\E w \in HighWords : In(w, description))

(***************************************************************************)
(* C23: creation keywords                                                  *)
(***************************************************************************)
\* the creation keywords the classifiers share
CreationWords == {W.create, W.generate, W.make, W.build}

\* C23: every utterance that contains a creation keyword, in any letter case
\* and whatever other category keywords it contains, is classified creation by
\* classify_task_type and by classify_task_fast.
C23_CreationKeywordWins ==
  (classified.done /\ ContainsOneOf(CreationWords, description)) =>
    /\ classified.type = "creation"
    /\ classified.fast = "creation"

(***************************************************************************)
(* C24: the gate and the classifier of the processors are pure and total   *)
(***************************************************************************)
\* the six category tags
Tags == {"creation", "analysis", "writing", "design", "automation", "general"}

\* C24: for every text handled, in whatever state of the processor, the gate
\* gives a decision and the classifier one of the six tags; the category a
\* delegated frame gets is the classifier's value for its text; and a frame
\* that repeats the frame handled just before it gets the same gate decision
\* and the same category, whatever delegation_count has become in between.
C24_GateAndClassifyArePure ==
  [][last_frame'.frame.kind = "TextFrame" =>
       /\ needs_delegation_of(last_frame'.frame.text) \in BOOLEAN
       /\ classify_task(last_frame'.frame.text) \in Tags
       /\ classify_task_type(last_frame'.frame.text) \in Tags
       /\ last_frame'.needs_delegation = needs_delegation_of(last_frame'.frame.text)
       /\ last_frame'.needs_delegation => last_frame'.task_type \in Tags
       /\ last_frame'.frame = last_frame.frame =>
            /\ last_frame'.needs_delegation = last_frame.needs_delegation
            /\ last_frame'.task_type = last_frame.task_type]_vars

\* the same delegated text was handled twice in a row, the second time with a
\* delegation_count that the first had changed
C24_Witness ==
  /\ last_frame.repeats
  /\ last_frame.needs_delegation
  /\ delegation_count >= 2

(***************************************************************************)
(* C25: a missing credential                                               *)
(***************************************************************************)
\* C25: when GROQ_API_KEY is absent, the process never gets a backend: once it
\* has left its launch, startup has failed or the process has exited,
\* voice_backend is None, and no utterance is gated, dispatched or registered.
C25_MissingKeyIsFatal ==
  server.groq_api_key = "absent" =>
    /\ ~server.voice_backend
    /\ server.pc \in {"boot", "startup", "failed", "exited"}
    /\ active_tasks = EmptyDict
    /\ \A c \in Calls :
         /\ ~turn[c].gated
         /\ turn[c].posts = 0
         /\ ~turn[c].registered
         /\ ~turn[c].reply.needs_delegation

\* without the key, startup has failed and a text that the gate would delegate
\* was answered "Backend not initialized"
C25_Witness ==
  /\ server.groq_api_key = "absent"
  /\ server.pc = "failed"
  /\ \E c \in Calls :
       /\ turn[c].pc = "done"
       /\ needs_delegation_of(turn[c].message)
       /\ turn[c].reply.content = S.backend_not_initialized

(***************************************************************************)
(* C26: the two ledgers of the integration layers                          *)
(***************************************************************************)
\* get_task_status(task_id): self.task_results.get(task_id), NoResponse for None
get_task_status(task_id) ==
  IF task_id \in DOMAIN task_results THEN task_results[task_id] ELSE NoResponse

\* call c is between its start and its return
InFlight(c) == call[c].pc \in {"get", "sleep", "head"}

\* C26: in every state, also while dispatches are in flight, every key of
\* task_results is a key of active_tasks, the response under key k has task_id
\* k, the task id of a dispatch in flight is in active_tasks, and
\* get_task_status gives a response exactly for the ids some dispatch has
\* completed for, and None for the others.
C26_LedgersAgree ==
  /\ DOMAIN task_results \subseteq DOMAIN active_tasks
  /\ \A k \in DOMAIN task_results : task_results[k].task_id = k
  /\ \A c \in Calls : InFlight(c) => call[c].request.task_id \in DOMAIN active_tasks
  /\ \A id \in RequestIds :
       (get_task_status(id) # NoResponse) <=>
         (\E c \in Calls : call[c].pc = "done" /\ call[c].request.task_id = id)

\* one dispatch is in flight for an id that has no outcome yet, while another
\* id has its outcome
C26_Witness ==
  \E c, d \in Calls :
    /\ InFlight(c)
    /\ get_task_status(call[c].request.task_id) = NoResponse
    /\ call[d].pc = "done"
    /\ get_task_status(call[d].request.task_id) = call[d].response

(***************************************************************************)
(* C27: one frame out per frame in                                         *)
(***************************************************************************)
\* C27: every process_frame call pushes exactly one frame, in the direction of
\* its input: a frame that is not a TextFrame, or a TextFrame whose text holds
\* no delegation keyword, is pushed unchanged and delegation_count stays; a
\* delegated TextFrame is replaced by one TextFrame that carries the response
\* text, and delegation_count grows by exactly one.
C27_OneFramePerFrame ==
  [][frames_handled' # frames_handled =>
       LET frame == last_frame'.frame
           delegated == frame.kind = "TextFrame" /\ needs_delegation_of(frame.text)
       IN
       /\ frames_handled' = frames_handled + 1
       /\ pushed_count' = pushed_count + 1
       /\ last_pushed'.direction = last_frame'.direction
       /\ IF delegated
          THEN /\ last_pushed'.frame.kind = "TextFrame"
               /\ last_pushed'.frame # frame
               /\ In(last_frame'.task_id, last_pushed'.frame.text)
               /\ delegation_count' = delegation_count + 1
          ELSE /\ last_pushed'.frame = frame
               /\ delegation_count' = delegation_count]_vars

\* an upstream delegated frame was answered, after a frame that is not a
\* TextFrame or holds no keyword was passed through
C27_Witness ==
  /\ frames_handled >= 2
  /\ delegation_count = 1
  /\ last_frame.needs_delegation
  /\ last_frame.direction = "UPSTREAM"
  /\ last_pushed.direction = "UPSTREAM"
  /\ pushed_count = frames_handled

(***************************************************************************)
(* C28: delegate_to_autogen of main                                        *)
(***************************************************************************)
\* C28: a delegate_to_autogen call of main adds exactly one entry to
\* active_tasks if and only if its POST was answered with status 200; its reply
\* holds a task identifier if and only if an entry was added, and that
\* identifier is the key of the added entry; after any other answer or an
\* exception active_tasks is unchanged.
C28_EntryIffAnswered200 ==
  [][\A c \in Calls :
       (program = "main" /\ turn[c].pc = "post" /\ turn'[c].pc = "done") =>
         LET answered_200 == /\ turn'[c].outcome.kind = "response"
                             /\ turn'[c].outcome.status = 200
             added == (DOMAIN active_tasks') \ (DOMAIN active_tasks)
         IN
         /\ answered_200 <=> (Cardinality(added) = 1)
         /\ ~answered_200 => active_tasks' = active_tasks
         /\ ReferencesTaskId(turn'[c].reply.content) <=> (Cardinality(added) = 1)
         /\ \A k \in added : In(k, turn'[c].reply.content)]_vars

(***************************************************************************)
(* C29: one response per websocket message                                 *)
(***************************************************************************)
\* C29: on a connection whose client stays connected, the handler has sent one
\* response for every message it has received whenever it is not in the middle
\* of handling one, it receives the next message only after it has sent the
\* response to the one before, and a message whose type is none of ping, text
\* and voice gets an error response, runs no turn and changes no backend state.
C29_OneResponsePerMessage ==
  [][\A c \in Calls :
       /\ ws'[c].sent <= ws'[c].received
       /\ ws'[c].received <= ws'[c].sent + 1
       /\ (ws'[c].connected /\ ~(ws'[c].pc \in {"turn", "send"})) =>
            ws'[c].sent = ws'[c].received
       /\ ws'[c].received # ws[c].received => ws[c].sent = ws[c].received
       /\ (ws'[c].message_type # "" /\ ~(ws'[c].message_type \in {"ping", "text", "voice"})) =>
            /\ ws'[c].response_type = "error"
            /\ turn'[c] = IdleTurn
            /\ ws'[c] # ws[c] => active_tasks' = active_tasks]_vars

(***************************************************************************)
(* C30: the client sessions of MCPServerManager                            *)
(***************************************************************************)
\* C30: once initialize_connections has returned, every ClientSession it
\* created is stored in active_connections or has been closed; in every state
\* active_connections holds only servers whose health check returned 200; and
\* after close_connections it is empty, also when a close() raised.
C30_SessionsStoredOrClosed ==
  /\ (mcp.pc \in {"initialized", "closing", "all_closed"}) =>
       \A i \in 1..mcp.servers :
         \/ mcp.session[i] = "none"
         \/ i \in mcp.active_connections
         \/ mcp.session[i] \in CloseOutcomes
  /\ \A i \in mcp.active_connections :
       mcp.health[i].kind = "response" /\ mcp.health[i].status = 200
  /\ mcp.pc = "all_closed" => mcp.active_connections = {}

====
